---- MODULE Spec2Model ----
(***************************************************************************)
(* Stable-Fluids solver of the 2D fluid demo (src/unnamed/part_000).       *)
(*                                                                         *)
(* The nine Float32Array buffers live in a heap indexed by buffer id; the  *)
(* names u, v, d, uPrev, vPrev, dPrev are references into it, exchanged by *)
(* the destructuring swaps.  A cell holds a fixed-point number, Scale      *)
(* units per 1.0; every store rounds to the nearest unit (ties to even),   *)
(* as a store into a Float32Array rounds to the nearest float.             *)
(* step() is executed call by call: StepCode is the list of the calls it   *)
(* makes, and pc is the position in that list.                             *)
(***************************************************************************)
EXTENDS Integers, Sequences, FiniteSets, TLC

VARIABLES heap, twin, u, v, d, uPrev, vPrev, dPrev,
          phase, pc, subStep, trace, frameLog, last, touched, shown,
          mouseX, mouseY, prevMouseX, prevMouseY, mouseSpeedX, mouseSpeedY,
          prevTimestamp, fluidSpeed, frames, events

vars == <<heap, twin, u, v, d, uPrev, vPrev, dPrev,
          phase, pc, subStep, trace, frameLog, last, touched, shown,
          mouseX, mouseY, prevMouseX, prevMouseY, mouseSpeedX, mouseSpeedY,
          prevTimestamp, fluidSpeed, frames, events>>

refs == <<u, v, d, uPrev, vPrev, dPrev>>
mouse == <<mouseX, mouseY, prevMouseX, prevMouseY, mouseSpeedX, mouseSpeedY,
           prevTimestamp, fluidSpeed>>

-----------------------------------------------------------------------------
(* Sizes and constants of the program.                                     *)

\* Interior cells per axis (50 in the demo; the model runs a small grid).
numCells == 4

size == (numCells + 2) * (numCells + 2)

numSubSteps == 8

\* Fixed-point units per 1.0 in a cell.
Scale == 32768

\* dt = 1.0 / (numSubSteps * 30.0), kept as the divisor 1/dt.
dtInv == numSubSteps * 30

\* diffusion_rate = 0.0001, kept as the divisor 1/diffusion_rate.
diffusionRateInv == 10000

\* Gauss-Seidel iteration counts of diffuse and project.
diffuseIters == 4
projectIters == 10

\* Canvas size in pixels (set by the page, which is not part of the source).
canvasWidth == 120
canvasHeight == 120

\* Frames and pointer events the model follows.
MaxFrames == 2
MaxEvents == 2

-----------------------------------------------------------------------------
(* Arithmetic.                                                             *)

\* n / m for m > 0, rounded to the nearest integer, ties to even.
RoundDiv(n, m) ==
  LET q == n \div m
      r == n % m
  IN  IF 2 * r < m THEN q
      ELSE IF 2 * r > m THEN q + 1
      ELSE IF q % 2 = 0 THEN q ELSE q + 1

\* n * num / den for den > 0 and num >= 0, rounded as RoundDiv rounds it; the
\* quotient and the remainder of n are scaled apart, which keeps the
\* products small.
MulDiv(n, num, den) ==
  LET f == (n % den) * num
      t == (n \div den) * num + (f \div den)
      r == f % den
  IN  IF 2 * r < den THEN t
      ELSE IF 2 * r > den THEN t + 1
      ELSE IF t % 2 = 0 THEN t ELSE t + 1

\* Math.round: nearest integer, ties towards +infinity.
MathRound(n, m) == (2 * n + m) \div (2 * m)

\* (x | 0) of the quotient n / m: truncation towards zero; 0 when m = 0
\* (Infinity | 0 and NaN | 0 are 0).
TruncDiv(n, m) ==
  IF m = 0 THEN 0
  ELSE IF n >= 0 THEN n \div m ELSE -((-n) \div m)

\* index with the row stride one short.
indexShortStride(i, j) == i + (numCells + 1) * j

index(i, j) == i + (numCells + 2) * j

\* The coordinates a linear offset stands for.
Col(n) == n % (numCells + 2)
Row(n) == n \div (numCells + 2)

Offsets == 0 .. size - 1
Interior == 1 .. numCells
Grid == 0 .. numCells + 1
IsInterior(n) == Col(n) \in Interior /\ Row(n) \in Interior

ZeroArray == [n \in Offsets |-> 0]

\* A store into a typed array: an offset outside the array is ignored.
Store(x, n, val) == IF n \in Offsets THEN [x EXCEPT ![n] = val] ELSE x

\* A read of a typed array.  Outside the array the read yields undefined,
\* which no cell value of the model stands for; 0 is returned there, and
\* StencilInside states that advect never gets there.
Load(x, n) == IF n \in Offsets THEN x[n] ELSE 0

-----------------------------------------------------------------------------
(* The solver's routines, as functions from arrays to arrays.              *)

\* addSource adding dt to the source instead of scaling by it.
addSourcePlusDt(x, s) ==
  [n \in Offsets |-> x[n] + RoundDiv(Scale, dtInv) + s[n]]

addSource(x, s) == [n \in Offsets |-> x[n] + RoundDiv(s[n], dtInv)]

\* The top and bottom edges negated under the policy of the other walls.
TopBottomEdgesOtherWall(x, boundaryType) ==
  [n \in Offsets |->
     IF Col(n) \in Interior /\ Row(n) = 0
       THEN IF boundaryType = "left_right_walls"
              THEN -x[index(Col(n), 1)] ELSE x[index(Col(n), 1)]
     ELSE IF Col(n) \in Interior /\ Row(n) = numCells + 1
       THEN IF boundaryType = "left_right_walls"
              THEN -x[index(Col(n), numCells)] ELSE x[index(Col(n), numCells)]
     ELSE x[n]]

\* First loop of setBoundary: the top and bottom edges.
TopBottomEdges(x, boundaryType) ==
  [n \in Offsets |->
     IF Col(n) \in Interior /\ Row(n) = 0
       THEN IF boundaryType = "top_bottom_walls"
              THEN -x[index(Col(n), 1)] ELSE x[index(Col(n), 1)]
     ELSE IF Col(n) \in Interior /\ Row(n) = numCells + 1
       THEN IF boundaryType = "top_bottom_walls"
              THEN -x[index(Col(n), numCells)] ELSE x[index(Col(n), numCells)]
     ELSE x[n]]

\* Second loop of setBoundary: the left and right edges.
LeftRightEdges(x, boundaryType) ==
  [n \in Offsets |->
     IF Row(n) \in Interior /\ Col(n) = 0
       THEN IF boundaryType = "left_right_walls"
              THEN -x[index(1, Row(n))] ELSE x[index(1, Row(n))]
     ELSE IF Row(n) \in Interior /\ Col(n) = numCells + 1
       THEN IF boundaryType = "left_right_walls"
              THEN -x[index(numCells, Row(n))] ELSE x[index(numCells, Row(n))]
     ELSE x[n]]

\* 0.5 * (a + b), stored.
Average(a, b) == RoundDiv(a + b, 2)

\* The corners with the first one averaged over an interior cell.
CornersOffByOne(x) ==
  LET c1 == [x EXCEPT ![index(0, 0)] =
               Average(x[index(0, 1)], x[index(1, 1)])]
      c2 == [c1 EXCEPT ![index(numCells + 1, 0)] =
               Average(c1[index(numCells + 1, 1)], c1[index(numCells, 0)])]
      c3 == [c2 EXCEPT ![index(0, numCells + 1)] =
               Average(c2[index(0, numCells)], c2[index(1, numCells + 1)])]
  IN  [c3 EXCEPT ![index(numCells + 1, numCells + 1)] =
         Average(c3[index(numCells + 1, numCells)],
                 c3[index(numCells, numCells + 1)])]

\* The four corner assignments of setBoundary, in the order of the code.
Corners(x) ==
  LET c1 == [x EXCEPT ![index(0, 0)] =
               Average(x[index(0, 1)], x[index(1, 0)])]
      c2 == [c1 EXCEPT ![index(numCells + 1, 0)] =
               Average(c1[index(numCells + 1, 1)], c1[index(numCells, 0)])]
      c3 == [c2 EXCEPT ![index(0, numCells + 1)] =
               Average(c2[index(0, numCells)], c2[index(1, numCells + 1)])]
  IN  [c3 EXCEPT ![index(numCells + 1, numCells + 1)] =
         Average(c3[index(numCells + 1, numCells)],
                 c3[index(numCells, numCells + 1)])]

setBoundary(x, boundaryType) ==
  Corners(LeftRightEdges(TopBottomEdges(x, boundaryType), boundaryType))

\* The interior cells in the order the double loops visit them:
\* i outer, j inner.
CellAt(k) == index(1 + ((k - 1) \div numCells), 1 + ((k - 1) % numCells))
NumInterior == numCells * numCells

NeighbourSum(x, n) ==
  x[n - 1] + x[n + 1] + x[n - (numCells + 2)] + x[n + (numCells + 2)]

\* a = (dt * diffusion_rate) / (h * h) with h = 1 / numCells, as a fraction.
aNum == numCells * numCells
aDen == dtInv * diffusionRateInv

\* The cell update of diffuse with the x_0 term left out.
DiffuseCellWithoutInput(x, x_0, n) ==
  LET t == MulDiv(NeighbourSum(x, n), aNum, aDen)
  IN  t - MulDiv(t, 4 * aNum, aDen + 4 * aNum)

\* One cell of the Gauss-Seidel update of diffuse: the two stores
\*   x = x_0 + a * (neighbours);  x /= 1 + 4a
\* The quotient t / (1 + 4a) is taken as t - t * 4a / (1 + 4a).
DiffuseCell(x, x_0, n) ==
  LET t == x_0[n] + MulDiv(NeighbourSum(x, n), aNum, aDen)
  IN  t - MulDiv(t, 4 * aNum, aDen + 4 * aNum)

\* One sweep of diffuse over the interior, in place: cells k .. NumInterior.
RECURSIVE DiffuseFrom(_, _, _)
DiffuseFrom(x, x_0, k) ==
  IF k > NumInterior THEN x
  ELSE DiffuseFrom([x EXCEPT ![CellAt(k)] = DiffuseCell(x, x_0, CellAt(k))],
                   x_0, k + 1)

DiffuseSweep(x, x_0) == DiffuseFrom(x, x_0, 1)

\* The back-traced coordinate without the upper clamp.
BackTraceNoUpperClamp(i, vel) ==
  LET p == i * Scale - RoundDiv(vel * numCells, dtInv)
  IN  IF 2 * p < Scale THEN RoundDiv(Scale, 2) ELSE p

\* The back-traced coordinate of advect, in units of 1/Scale of a cell,
\* clamped to [0.5, numCells + 0.5].
BackTrace(i, vel) ==
  LET p == i * Scale - RoundDiv(vel * numCells, dtInv)
      lo == IF 2 * p < Scale THEN RoundDiv(Scale, 2) ELSE p
  IN  IF 2 * lo > (2 * numCells + 1) * Scale
        THEN RoundDiv((2 * numCells + 1) * Scale, 2) ELSE lo

\* Math.floor of a coordinate.
Floor(p) == p \div Scale

\* (w0 * a + w1 * b) / Scale for weights with w0 + w1 = Scale, rounded; the
\* whole and the fractional part of a and b are weighted apart, which keeps
\* the products small.
Weighted(w0, a, w1, b) ==
  w0 * (a \div Scale) + w1 * (b \div Scale)
  + RoundDiv(w0 * (a % Scale) + w1 * (b % Scale), Scale)

\* Bilinear interpolation with the two weights of each axis exchanged.
InterpolateWeightsExchanged(x_0, p_x, p_y) ==
  LET i0 == Floor(p_x)
      i1 == i0 + 1
      j0 == Floor(p_y)
      j1 == j0 + 1
      s0 == p_x - i0 * Scale
      s1 == Scale - s0
      t0 == p_y - j0 * Scale
      t1 == Scale - t0
  IN  Weighted(s0, Weighted(t0, Load(x_0, index(i0, j0)),
                            t1, Load(x_0, index(i0, j1))),
               s1, Weighted(t0, Load(x_0, index(i1, j0)),
                            t1, Load(x_0, index(i1, j1))))

\* Bilinear interpolation of x_0 at (p_x, p_y).
Interpolate(x_0, p_x, p_y) ==
  LET i0 == Floor(p_x)
      i1 == i0 + 1
      j0 == Floor(p_y)
      j1 == j0 + 1
      s1 == p_x - i0 * Scale
      s0 == Scale - s1
      t1 == p_y - j0 * Scale
      t0 == Scale - t1
  IN  Weighted(s0, Weighted(t0, Load(x_0, index(i0, j0)),
                            t1, Load(x_0, index(i0, j1))),
               s1, Weighted(t0, Load(x_0, index(i1, j0)),
                            t1, Load(x_0, index(i1, j1))))

\* The double loop of advect (before its setBoundary).
AdvectPass(x, x_0, u_0, v_0) ==
  [n \in Offsets |->
     IF IsInterior(n)
       THEN Interpolate(x_0, BackTrace(Col(n), u_0[n]), BackTrace(Row(n), v_0[n]))
       ELSE x[n]]

\* The cells one interior cell of advect reads.
Stencil(u_0, v_0, n) ==
  LET i0 == Floor(BackTrace(Col(n), u_0[n]))
      j0 == Floor(BackTrace(Row(n), v_0[n]))
  IN  {<<i0, j0>>, <<i0, j0 + 1>>, <<i0 + 1, j0>>, <<i0 + 1, j0 + 1>>}

\* project: the divergence loop, h = 1 / numCells.
Divergence(pu, pv, div) ==
  [n \in Offsets |->
     IF IsInterior(n)
       THEN RoundDiv(-((pu[n + 1] - pu[n - 1])
                       + (pv[n + (numCells + 2)] - pv[n - (numCells + 2)])),
                     2 * numCells)
       ELSE div[n]]

\* project: one Gauss-Seidel sweep for p, in place.
RECURSIVE PressureFrom(_, _, _)
PressureFrom(p, div, k) ==
  IF k > NumInterior THEN p
  ELSE PressureFrom(
         [p EXCEPT ![CellAt(k)] =
            RoundDiv(NeighbourSum(p, CellAt(k)) + div[CellAt(k)], 4)],
         div, k + 1)

PressureSweep(p, div) == PressureFrom(p, div, 1)

\* project: subtracting the gradient of p, (p1 - p0) / (2h).
GradientX(pu, p) ==
  [n \in Offsets |->
     IF IsInterior(n)
       THEN RoundDiv(2 * pu[n] - (p[n + 1] - p[n - 1]) * numCells, 2)
       ELSE pu[n]]

GradientY(pv, p) ==
  [n \in Offsets |->
     IF IsInterior(n)
       THEN RoundDiv(2 * pv[n] - (p[n + (numCells + 2)] - p[n - (numCells + 2)])
                                 * numCells, 2)
       ELSE pv[n]]

-----------------------------------------------------------------------------
(* The calls of step(), in order.                                          *)

\* The three source buffers are const bindings.
dSource == 7
uSource == 8
vSource == 9

Buffers == 1 .. 9

\* The buffer a name refers to at this moment.
Ref(name) ==
  CASE name = "u" -> u
    [] name = "v" -> v
    [] name = "d" -> d
    [] name = "uPrev" -> uPrev
    [] name = "vPrev" -> vPrev
    [] name = "dPrev" -> dPrev
    [] name = "dSource" -> dSource
    [] name = "uSource" -> uSource
    [] name = "vSource" -> vSource

\* One step of a routine: the operation, the call it belongs to, whether it
\* is the first step of that call, and the names of the arrays it works on.
Ins(op, call, first, a, b, c, e, bt) ==
  [op |-> op, call |-> call, first |-> first,
   a |-> a, b |-> b, c |-> c, e |-> e, bt |-> bt]

NoIns == Ins("none", <<>>, FALSE, "-", "-", "-", "-", "-")

RECURSIVE Repeat(_, _)
Repeat(s, n) == IF n <= 0 THEN <<>> ELSE s \o Repeat(s, n - 1)

BoundaryStep(call, x, boundaryType) ==
  Ins("setBoundary", call, FALSE, x, "-", "-", "-", boundaryType)

diffuse(x, x_0, boundaryType) ==
  LET call == <<"diffuse", x, x_0, boundaryType>>
      iter(first) == <<Ins("diffuseSweep", call, first, x, x_0, "-", "-", "-"),
                       BoundaryStep(call, x, boundaryType)>>
  IN  iter(TRUE) \o Repeat(iter(FALSE), diffuseIters - 1)

\* advect without its closing setBoundary.
advectNoBoundary(x, x_0, u_0, v_0, boundaryType) ==
  <<Ins("advectPass", <<"advect", x, x_0, u_0, v_0, boundaryType>>, TRUE,
        x, x_0, u_0, v_0, "-")>>

advect(x, x_0, u_0, v_0, boundaryType) ==
  LET call == <<"advect", x, x_0, u_0, v_0, boundaryType>>
  IN  <<Ins("advectPass", call, TRUE, x, x_0, u_0, v_0, "-"),
        BoundaryStep(call, x, boundaryType)>>

project(pu, pv, p, div) ==
  LET call == <<"project", pu, pv, p, div>>
  IN  <<Ins("zeroFill", call, TRUE, p, "-", "-", "-", "-"),
        Ins("divergence", call, FALSE, pu, pv, "-", div, "-"),
        BoundaryStep(call, div, "continuous")>>
      \o Repeat(<<Ins("pressureSweep", call, FALSE, p, div, "-", "-", "-"),
                  BoundaryStep(call, p, "continuous")>>, projectIters)
      \o <<Ins("gradient", call, FALSE, pu, pv, p, "-", "-"),
           BoundaryStep(call, pu, "left_right_walls"),
           BoundaryStep(call, pv, "top_bottom_walls")>>

AddSourceCall(x, s) ==
  <<Ins("addSource", <<"addSource", x, s>>, TRUE, x, s, "-", "-", "-")>>

SwapCall(x, y) ==
  <<Ins("swap", <<"swap", x, y>>, TRUE, x, y, "-", "-", "-")>>

\* densityStep with the wall policy of u in place of "continuous".
densityStepWalls ==
  AddSourceCall("d", "dSource")
  \o SwapCall("d", "dPrev")
  \o diffuse("d", "dPrev", "left_right_walls")
  \o SwapCall("d", "dPrev")
  \o advect("d", "dPrev", "u", "v", "left_right_walls")

densityStep ==
  AddSourceCall("d", "dSource")
  \o SwapCall("d", "dPrev")
  \o diffuse("d", "dPrev", "continuous")
  \o SwapCall("d", "dPrev")
  \o advect("d", "dPrev", "u", "v", "continuous")

\* velocityStep with a single projection, after advection.
velocityStepOneProject ==
  AddSourceCall("u", "uSource")
  \o AddSourceCall("v", "vSource")
  \o SwapCall("u", "uPrev")
  \o SwapCall("v", "vPrev")
  \o diffuse("u", "uPrev", "left_right_walls")
  \o diffuse("v", "vPrev", "top_bottom_walls")
  \o SwapCall("u", "uPrev")
  \o SwapCall("v", "vPrev")
  \o advect("u", "uPrev", "uPrev", "vPrev", "left_right_walls")
  \o advect("v", "vPrev", "uPrev", "vPrev", "top_bottom_walls")
  \o project("u", "v", "uPrev", "vPrev")

\* velocityStep adding the density source to u.
velocityStepDensityForce ==
  AddSourceCall("u", "dSource")
  \o AddSourceCall("v", "vSource")
  \o SwapCall("u", "uPrev")
  \o SwapCall("v", "vPrev")
  \o diffuse("u", "uPrev", "left_right_walls")
  \o diffuse("v", "vPrev", "top_bottom_walls")
  \o project("u", "v", "uPrev", "vPrev")
  \o SwapCall("u", "uPrev")
  \o SwapCall("v", "vPrev")
  \o advect("u", "uPrev", "uPrev", "vPrev", "left_right_walls")
  \o advect("v", "vPrev", "uPrev", "vPrev", "top_bottom_walls")
  \o project("u", "v", "uPrev", "vPrev")

velocityStep ==
  AddSourceCall("u", "uSource")
  \o AddSourceCall("v", "vSource")
  \o SwapCall("u", "uPrev")
  \o SwapCall("v", "vPrev")
  \o diffuse("u", "uPrev", "left_right_walls")
  \o diffuse("v", "vPrev", "top_bottom_walls")
  \o project("u", "v", "uPrev", "vPrev")
  \o SwapCall("u", "uPrev")
  \o SwapCall("v", "vPrev")
  \o advect("u", "uPrev", "uPrev", "vPrev", "left_right_walls")
  \o advect("v", "vPrev", "uPrev", "vPrev", "top_bottom_walls")
  \o project("u", "v", "uPrev", "vPrev")

\* step with the density step first.
stepDensityFirst == densityStep \o velocityStep

step == velocityStep \o densityStep

StepLen == Len(step)

-----------------------------------------------------------------------------
(* The cells an operation addresses, as the coordinate pairs it passes to  *)
(* index() (a linear loop over the array addresses every cell).            *)

AllCells == Grid \X Grid

FivePoint == {<<i + di, j + dj>> :
                i \in Interior, j \in Interior,
                di \in {-1, 0, 1}, dj \in {-1, 0, 1}}
             \ {<<i + di, j + dj>> :
                  i \in Interior, j \in Interior, di \in {-1, 1}, dj \in {-1, 1}}

BoundaryCells ==
  UNION {{<<k, 0>>, <<k, 1>>, <<k, numCells + 1>>, <<k, numCells>>,
          <<0, k>>, <<1, k>>, <<numCells + 1, k>>, <<numCells, k>>} :
            k \in Interior}
  \cup {<<0, 0>>, <<0, 1>>, <<1, 0>>,
        <<numCells + 1, 0>>, <<numCells + 1, 1>>, <<numCells, 0>>,
        <<0, numCells + 1>>, <<0, numCells>>, <<1, numCells + 1>>,
        <<numCells + 1, numCells + 1>>, <<numCells + 1, numCells>>,
        <<numCells, numCells + 1>>}

AdvectCells(u_0, v_0) ==
  UNION {Stencil(u_0, v_0, n) \cup {<<Col(n), Row(n)>>} :
           n \in {m \in Offsets : IsInterior(m)}}

-----------------------------------------------------------------------------
(* The state after the script has run: nine zero-filled arrays, the        *)
(* pointer at rest, no animation frame delivered yet.                      *)

fluidSpeedInit == 5000

Init ==
  /\ heap = [b \in Buffers |-> ZeroArray]
  /\ twin = [b \in Buffers |-> ZeroArray]
  /\ u = 1 /\ v = 2 /\ d = 3 /\ uPrev = 4 /\ vPrev = 5 /\ dPrev = 6
  /\ phase = "idle" /\ pc = 0 /\ subStep = 0
  /\ trace = <<>> /\ frameLog = <<>> /\ last = NoIns
  /\ touched = {} /\ shown = ZeroArray
  /\ mouseX = 0 /\ mouseY = 0 /\ prevMouseX = 0 /\ prevMouseY = 0
  /\ mouseSpeedX = 0 /\ mouseSpeedY = 0 /\ prevTimestamp = FALSE
  /\ fluidSpeed = fluidSpeedInit
  /\ frames = 0 /\ events = 0

-----------------------------------------------------------------------------
(* step(): one action per kind of operation.                               *)

At(op) == phase = "step" /\ pc \in 1 .. StepLen /\ step[pc].op = op

\* What every operation of step() does besides its array work.
Finish(ins, cells) ==
  /\ pc' = pc + 1
  /\ last' = ins
  /\ trace' = IF ins.first THEN Append(trace, ins.call) ELSE trace
  /\ touched' = cells
  /\ UNCHANGED <<phase, subStep, frameLog, shown, mouse, frames, events>>

HeapAddSource(h, ins) ==
  [h EXCEPT ![Ref(ins.a)] = addSource(h[Ref(ins.a)], h[Ref(ins.b)])]

StepAddSource ==
  /\ At("addSource")
  /\ heap' = HeapAddSource(heap, step[pc])
  /\ twin' = HeapAddSource(twin, step[pc])
  /\ UNCHANGED refs
  /\ Finish(step[pc], AllCells)

\* a = b in place of the exchange: both names end on the buffer of b.
SwappedOneWay(name, a, b) ==
  IF name = a THEN Ref(b) ELSE Ref(name)

\* [a, b] = [b, a]: the two names exchange their buffers.
Swapped(name, a, b) ==
  IF name = a THEN Ref(b) ELSE IF name = b THEN Ref(a) ELSE Ref(name)

StepSwap ==
  /\ At("swap")
  /\ u' = Swapped("u", step[pc].a, step[pc].b)
  /\ v' = Swapped("v", step[pc].a, step[pc].b)
  /\ d' = Swapped("d", step[pc].a, step[pc].b)
  /\ uPrev' = Swapped("uPrev", step[pc].a, step[pc].b)
  /\ vPrev' = Swapped("vPrev", step[pc].a, step[pc].b)
  /\ dPrev' = Swapped("dPrev", step[pc].a, step[pc].b)
  /\ UNCHANGED <<heap, twin>>
  /\ Finish(step[pc], {})

HeapDiffuseSweep(h, ins) ==
  [h EXCEPT ![Ref(ins.a)] = DiffuseSweep(h[Ref(ins.a)], h[Ref(ins.b)])]

StepDiffuseSweep ==
  /\ At("diffuseSweep")
  /\ heap' = HeapDiffuseSweep(heap, step[pc])
  /\ twin' = HeapDiffuseSweep(twin, step[pc])
  /\ UNCHANGED refs
  /\ Finish(step[pc], FivePoint)

HeapSetBoundary(h, ins) ==
  [h EXCEPT ![Ref(ins.a)] = setBoundary(h[Ref(ins.a)], ins.bt)]

StepSetBoundary ==
  /\ At("setBoundary")
  /\ heap' = HeapSetBoundary(heap, step[pc])
  /\ twin' = HeapSetBoundary(twin, step[pc])
  /\ UNCHANGED refs
  /\ Finish(step[pc], BoundaryCells)

\* advect storing its result into the array it interpolates from.
HeapAdvectPassInPlace(h, ins) ==
  [h EXCEPT ![Ref(ins.b)] =
     AdvectPass(h[Ref(ins.a)], h[Ref(ins.b)], h[Ref(ins.c)], h[Ref(ins.e)])]

HeapAdvectPass(h, ins) ==
  [h EXCEPT ![Ref(ins.a)] =
     AdvectPass(h[Ref(ins.a)], h[Ref(ins.b)], h[Ref(ins.c)], h[Ref(ins.e)])]

StepAdvectPass ==
  /\ At("advectPass")
  /\ heap' = HeapAdvectPass(heap, step[pc])
  /\ twin' = HeapAdvectPass(twin, step[pc])
  /\ UNCHANGED refs
  /\ Finish(step[pc], AdvectCells(heap[Ref(step[pc].c)], heap[Ref(step[pc].e)]))

HeapZeroFill(h, ins) == [h EXCEPT ![Ref(ins.a)] = ZeroArray]

StepZeroFill ==
  /\ At("zeroFill")
  /\ heap' = HeapZeroFill(heap, step[pc])
  /\ twin' = HeapZeroFill(twin, step[pc])
  /\ UNCHANGED refs
  /\ Finish(step[pc], AllCells)

HeapDivergence(h, ins) ==
  [h EXCEPT ![Ref(ins.e)] =
     Divergence(h[Ref(ins.a)], h[Ref(ins.b)], h[Ref(ins.e)])]

StepDivergence ==
  /\ At("divergence")
  /\ heap' = HeapDivergence(heap, step[pc])
  /\ twin' = HeapDivergence(twin, step[pc])
  /\ UNCHANGED refs
  /\ Finish(step[pc], FivePoint)

HeapPressureSweep(h, ins) ==
  [h EXCEPT ![Ref(ins.a)] = PressureSweep(h[Ref(ins.a)], h[Ref(ins.b)])]

StepPressureSweep ==
  /\ At("pressureSweep")
  /\ heap' = HeapPressureSweep(heap, step[pc])
  /\ twin' = HeapPressureSweep(twin, step[pc])
  /\ UNCHANGED refs
  /\ Finish(step[pc], FivePoint)

HeapGradient(h, ins) ==
  [h EXCEPT ![Ref(ins.a)] = GradientX(h[Ref(ins.a)], h[Ref(ins.c)]),
            ![Ref(ins.b)] = GradientY(h[Ref(ins.b)], h[Ref(ins.c)])]

StepGradient ==
  /\ At("gradient")
  /\ heap' = HeapGradient(heap, step[pc])
  /\ twin' = HeapGradient(twin, step[pc])
  /\ UNCHANGED refs
  /\ Finish(step[pc], FivePoint)

\* The loop of update() running one tick too many.
StepCallOneMore ==
  /\ phase = "loop" /\ subStep <= numSubSteps
  /\ phase' = "step" /\ pc' = 1 /\ trace' = <<>>
  /\ UNCHANGED <<heap, twin, refs, subStep, frameLog, last, touched, shown,
                 mouse, frames, events>>

\* The loop of update(): step() is called while i < numSubSteps ...
StepCall ==
  /\ phase = "loop" /\ subStep < numSubSteps
  /\ phase' = "step" /\ pc' = 1 /\ trace' = <<>>
  /\ UNCHANGED <<heap, twin, refs, subStep, frameLog, last, touched, shown,
                 mouse, frames, events>>

\* ... and returns after its last operation.
StepReturn ==
  /\ phase = "step" /\ pc = StepLen + 1
  /\ phase' = "loop" /\ pc' = 0 /\ subStep' = subStep + 1
  /\ frameLog' = Append(frameLog, "step")
  /\ UNCHANGED <<heap, twin, refs, trace, last, touched, shown,
                 mouse, frames, events>>

Tick ==
  \/ StepCall
  \/ StepAddSource
  \/ StepSwap
  \/ StepDiffuseSweep
  \/ StepSetBoundary
  \/ StepAdvectPass
  \/ StepZeroFill
  \/ StepDivergence
  \/ StepPressureSweep
  \/ StepGradient
  \/ StepReturn

-----------------------------------------------------------------------------
(* update(): the animation-frame callback.                                 *)

UpdateIns(op) == Ins(op, <<"update">>, FALSE, "-", "-", "-", "-", "-")

HeapFill(h) ==
  [h EXCEPT ![dSource] = ZeroArray, ![uSource] = ZeroArray,
            ![vSource] = ZeroArray]

\* dSource.fill(0.0); uSource.fill(0.0); vSource.fill(0.0)
UpdateFill ==
  /\ phase = "idle" /\ frames < MaxFrames
  /\ heap' = HeapFill(heap)
  /\ twin' = HeapFill(twin)
  /\ phase' = "filled"
  /\ frameLog' = <<"fill">>
  /\ last' = UpdateIns("fill")
  /\ touched' = AllCells
  /\ UNCHANGED <<refs, pc, subStep, trace, shown, mouse, frames, events>>

\* lo < x < hi as JavaScript evaluates it: (lo < x) is a boolean, which the
\* second comparison converts to 0 or 1.
Chained(lo, x, hi) == (IF lo < x THEN 1 ELSE 0) < hi

InRegion ==
  /\ Chained(50, prevMouseX, canvasWidth - 50)
  /\ Chained(50, prevMouseY, canvasHeight - 50)

nowX == MathRound(numCells * mouseX, canvasWidth)
nowY == MathRound(numCells * mouseY, canvasHeight)
prevX == MathRound(numCells * prevMouseX, canvasWidth)
prevY == MathRound(numCells * prevMouseY, canvasHeight)

\* x and y of iteration i: Math.round(prev + (now - prev) * (i / 5)).
PointX(i) == MathRound(5 * prevX + (nowX - prevX) * i, 5)
PointY(i) == MathRound(5 * prevY + (nowY - prevY) * i, 5)

\* The five coordinate pairs one iteration writes the velocity sources at.
PlusCells(x, y) ==
  <<(<<x, y>>), (<<x - 1, y>>), (<<x + 1, y>>), (<<x, y - 1>>), (<<x, y + 1>>)>>

RECURSIVE StoreAll(_, _, _, _)
StoreAll(x, cells, k, val) ==
  IF k > Len(cells) THEN x
  ELSE StoreAll(Store(x, index(cells[k][1], cells[k][2]), val),
                cells, k + 1, val)

\* mouseSpeed * fluidSpeed as a cell value; fluidSpeed is kept in tenths.
SourceValue(speed) == RoundDiv(speed * fluidSpeed * Scale, 10)

\* Iterations i .. 9 of the source loop, on the heap h.
RECURSIVE PopulateFrom(_, _)
PopulateFrom(h, i) ==
  IF i >= 10 THEN h
  ELSE PopulateFrom(
         [h EXCEPT
            ![dSource] = Store(h[dSource], index(PointX(i), PointY(i)),
                               1000 * Scale),
            ![uSource] = StoreAll(h[uSource], PlusCells(PointX(i), PointY(i)),
                                  1, SourceValue(mouseSpeedX)),
            ![vSource] = StoreAll(h[vSource], PlusCells(PointX(i), PointY(i)),
                                  1, SourceValue(mouseSpeedY))],
         i + 1)

HeapPopulate(h) == IF InRegion THEN PopulateFrom(h, 0) ELSE h

PopulateCells ==
  IF InRegion
    THEN UNION {{PlusCells(PointX(i), PointY(i))[k] : k \in 1 .. 5} :
                  i \in 0 .. 9}
    ELSE {}

UpdatePopulate ==
  /\ phase = "filled"
  /\ heap' = HeapPopulate(heap)
  /\ twin' = HeapPopulate(twin)
  /\ phase' = "loop" /\ subStep' = 0
  /\ frameLog' = Append(frameLog, "populate")
  /\ last' = UpdateIns("populate")
  /\ touched' = PopulateCells
  /\ UNCHANGED <<refs, pc, trace, shown, mouse, frames, events>>

\* draw(): the renderer reads d, u and v at the interior cells.
Rendered(h) ==
  [n \in Offsets |->
     IF IsInterior(n) THEN <<h[d][n], h[u][n], h[v][n]>> ELSE <<0, 0, 0>>]

Draw ==
  /\ phase = "loop" /\ subStep = numSubSteps
  /\ shown' = Rendered(heap)
  /\ phase' = "drawn"
  /\ frameLog' = Append(frameLog, "draw")
  /\ last' = UpdateIns("draw")
  /\ touched' = Interior \X Interior
  /\ UNCHANGED <<heap, twin, refs, pc, subStep, trace, mouse, frames, events>>

\* window.requestAnimationFrame(update), and update() returns.
RequestAnimationFrame ==
  /\ phase = "drawn"
  /\ phase' = "idle"
  /\ frames' = frames + 1
  /\ last' = UpdateIns("requestAnimationFrame")
  /\ UNCHANGED <<heap, twin, refs, pc, subStep, trace, frameLog, touched,
                 shown, mouse, events>>

-----------------------------------------------------------------------------
(* The event listeners.  They run between callbacks, never inside one.     *)

\* Pointer positions relative to the canvas, and the milliseconds between
\* two events, that the model delivers.
PointerPositions == {<<0, 0>>, <<canvasWidth - 1, canvasHeight \div 2>>}
TimeDiffs == {0, 60}
SliderValues == {0, 10000}

\* The body shared by the mousemove and the touchmove listener.
PointerMoved(px, py, timeDiff) ==
  /\ phase = "idle" /\ events < MaxEvents
  /\ mouseX' = px
  /\ mouseY' = py
  /\ mouseSpeedX' = IF prevTimestamp
                      THEN TruncDiv(px - prevMouseX, timeDiff) ELSE mouseSpeedX
  /\ mouseSpeedY' = IF prevTimestamp
                      THEN TruncDiv(py - prevMouseY, timeDiff) ELSE mouseSpeedY
  /\ prevMouseX' = px
  /\ prevMouseY' = py
  /\ prevTimestamp' = TRUE
  /\ events' = events + 1
  /\ UNCHANGED <<heap, twin, refs, phase, pc, subStep, trace, frameLog,
                 touched, shown, fluidSpeed, frames>>

MouseMove ==
  /\ \E pos \in PointerPositions, timeDiff \in TimeDiffs :
       PointerMoved(pos[1], pos[2], timeDiff)
  /\ last' = UpdateIns("mousemove")

TouchMove ==
  /\ \E pos \in PointerPositions, timeDiff \in TimeDiffs :
       PointerMoved(pos[1], pos[2], timeDiff)
  /\ last' = UpdateIns("touchmove")

SliderInput ==
  /\ phase = "idle" /\ events < MaxEvents
  /\ \E val \in SliderValues : fluidSpeed' = val
  /\ events' = events + 1
  /\ last' = UpdateIns("input")
  /\ UNCHANGED <<heap, twin, refs, phase, pc, subStep, trace, frameLog,
                 touched, shown, mouseX, mouseY, prevMouseX, prevMouseY,
                 mouseSpeedX, mouseSpeedY, prevTimestamp, frames>>

Next ==
  \/ MouseMove
  \/ TouchMove
  \/ SliderInput
  \/ UpdateFill
  \/ UpdatePopulate
  \/ Tick
  \/ Draw
  \/ RequestAnimationFrame

Spec == Init /\ [][Next]_vars

-----------------------------------------------------------------------------
(* The solver on its own: the sub-step loop of one frame entered with      *)
(* field and source contents of any kind, and a second run beside it that  *)
(* may differ in the density buffers only.                                 *)

\* An array whose cells are not related by any boundary rule.
Pattern(a, b, c) == [n \in Offsets |-> a * Col(n) + b * Row(n) + c]

\* A source array: val at the cell (1, 1) and half of it at the corner (0, 0).
Spot(val) ==
  [n \in Offsets |->
     IF n = index(1, 1) THEN val ELSE IF n = 0 THEN val \div 2 ELSE 0]

FieldSamples ==
  {[vel |-> vel, dens |-> dens, prev |-> prev, src |-> src, other |-> other] :
     vel \in BOOLEAN, dens \in BOOLEAN, prev \in BOOLEAN,
     src \in BOOLEAN, other \in BOOLEAN}

SampleHeap(f) ==
  [b \in Buffers |->
     CASE b = 1 -> IF f.vel THEN Pattern(1000 * Scale, -50 * Scale, -1250 * Scale)
                            ELSE ZeroArray
       [] b = 2 -> IF f.vel THEN Pattern(-30 * Scale, 700 * Scale, -900 * Scale + 7)
                            ELSE ZeroArray
       [] b = 3 -> IF f.dens THEN Pattern(3 * Scale + 1, 5 * Scale, 11)
                             ELSE ZeroArray
       [] b = 4 -> IF f.prev THEN Pattern(-7 * Scale, 2 * Scale, 5) ELSE ZeroArray
       [] b = 5 -> IF f.prev THEN Pattern(Scale, 9 * Scale, -3) ELSE ZeroArray
       [] b = 6 -> IF f.prev THEN Pattern(4 * Scale, -Scale, 1) ELSE ZeroArray
       [] b = dSource -> IF f.src THEN Spot(1000 * Scale) ELSE ZeroArray
       [] b = uSource -> IF f.src THEN Pattern(0, 300 * Scale, -400 * Scale)
                                  ELSE ZeroArray
       [] b = vSource -> IF f.src THEN Spot(-500 * Scale) ELSE ZeroArray]

\* The second run: the same velocity buffers and velocity sources, other
\* contents in d, dPrev and dSource.
OtherDensity(h) ==
  [h EXCEPT ![3] = Pattern(-2 * Scale, 6 * Scale + 3, 40 * Scale),
            ![6] = Pattern(Scale, Scale, -9 * Scale),
            ![dSource] = Pattern(0, 0, 250 * Scale)]

SolverInit ==
  /\ \E f \in FieldSamples :
       /\ heap = SampleHeap(f)
       /\ twin = IF f.other THEN OtherDensity(SampleHeap(f)) ELSE SampleHeap(f)
  /\ u = 1 /\ v = 2 /\ d = 3 /\ uPrev = 4 /\ vPrev = 5 /\ dPrev = 6
  /\ phase = "loop" /\ pc = 0 /\ subStep = 0
  /\ trace = <<>> /\ frameLog = <<>> /\ last = NoIns
  /\ touched = {} /\ shown = ZeroArray
  /\ mouseX = 0 /\ mouseY = 0 /\ prevMouseX = 0 /\ prevMouseY = 0
  /\ mouseSpeedX = 0 /\ mouseSpeedY = 0 /\ prevTimestamp = FALSE
  /\ fluidSpeed = fluidSpeedInit
  /\ frames = 0 /\ events = 0

SolverNext == Tick

SolverSpec == SolverInit /\ [][SolverNext]_vars

-----------------------------------------------------------------------------
(* Properties.                                                             *)

Fields == {u, v, d, uPrev, vPrev, dPrev}
Sources == {dSource, uSource, vSource}

AllZero == \A b \in Buffers : heap[b] = ZeroArray

IsPrefix(s, t) == Len(s) <= Len(t) /\ SubSeq(t, 1, Len(s)) = s

TickDone == (phase = "step" /\ pc = StepLen + 1) \/ (phase = "loop" /\ subStep >= 1)

\* C1 (zero-source stability): when every cell of the six fields and of the
\* three source buffers is zero, every operation of step() leaves every cell
\* of all of them zero; so from an all-zero state any number of calls to
\* step() ends with all fields exactly zero.
ZeroSourceStability == [][AllZero => AllZero']_vars

\* The all-zero state after the eight ticks of a frame's loop.
ZeroAfterTicks == AllZero /\ phase = "loop" /\ subStep = numSubSteps

\* The sign a policy gives an edge: walls negate the component normal to them.
EdgeSign(boundaryType, wall) == IF boundaryType = wall THEN -1 ELSE 1

TopBottomRelation(x, boundaryType) ==
  \A k \in Interior :
    /\ x[index(k, 0)]
         = EdgeSign(boundaryType, "top_bottom_walls") * x[index(k, 1)]
    /\ x[index(k, numCells + 1)]
         = EdgeSign(boundaryType, "top_bottom_walls") * x[index(k, numCells)]

LeftRightRelation(x, boundaryType) ==
  \A k \in Interior :
    /\ x[index(0, k)]
         = EdgeSign(boundaryType, "left_right_walls") * x[index(1, k)]
    /\ x[index(numCells + 1, k)]
         = EdgeSign(boundaryType, "left_right_walls") * x[index(numCells, k)]

\* Each corner is the average, at the precision of the array, of the two
\* edge ghost cells next to it.
CornerRelation(x) ==
  /\ x[index(0, 0)] = Average(x[index(0, 1)], x[index(1, 0)])
  /\ x[index(numCells + 1, 0)]
       = Average(x[index(numCells + 1, 1)], x[index(numCells, 0)])
  /\ x[index(0, numCells + 1)]
       = Average(x[index(0, numCells)], x[index(1, numCells + 1)])
  /\ x[index(numCells + 1, numCells + 1)]
       = Average(x[index(numCells + 1, numCells)],
                 x[index(numCells, numCells + 1)])

BoundaryRelation(x, boundaryType) ==
  /\ TopBottomRelation(x, boundaryType)
  /\ LeftRightRelation(x, boundaryType)
  /\ CornerRelation(x)

\* C2: after every completed tick, whatever the fields and sources held
\* before it, the ghost cells of d satisfy the continuous relation, those of
\* u the left/right-wall relation and those of v the top/bottom-wall
\* relation, corners included.
GhostCellsAfterTick ==
  TickDone =>
    /\ BoundaryRelation(heap[d], "continuous")
    /\ BoundaryRelation(heap[u], "left_right_walls")
    /\ BoundaryRelation(heap[v], "top_bottom_walls")

\* A tick has completed on fields whose ghost cells are not zero.
TickDoneOnLiveFields ==
  /\ TickDone
  /\ heap[d][index(0, 1)] # 0
  /\ heap[u][index(0, 1)] # 0
  /\ heap[v][index(1, 0)] # 0

\* C3: a setBoundary call leaves the edge ghost cells of its array equal to
\* the adjacent interior cells, negated on the walls its policy names, and
\* changes no interior cell.
BoundaryMirroring ==
  [][At("setBoundary") =>
       LET b == Ref(step[pc].a)
       IN  /\ TopBottomRelation(heap'[b], step[pc].bt)
           /\ LeftRightRelation(heap'[b], step[pc].bt)
           /\ \A n \in Offsets : IsInterior(n) => heap'[b][n] = heap[b][n]]_vars

\* setBoundary has just negated a non-zero edge under a wall policy.
MirroredAWall ==
  /\ last.op = "setBoundary"
  /\ last.bt = "top_bottom_walls"
  /\ heap[Ref(last.a)][index(1, 0)] # 0
  /\ heap[Ref(last.a)][index(1, 0)] = -heap[Ref(last.a)][index(1, 1)]

\* C4: after any setBoundary call, with any policy, each of the four corners
\* is the average of the two edge ghost cells next to it, as that call's
\* edge pass left them.
CornerAveraging ==
  last.op = "setBoundary" => CornerRelation(heap[Ref(last.a)])

\* setBoundary has just set the corners of a field with walls, where the two
\* edge cells next to a corner are opposite, and not zero.
AveragedACorner ==
  /\ last.op = "setBoundary"
  /\ last.bt = "left_right_walls"
  /\ heap[Ref(last.a)][index(1, 0)] # 0
  /\ heap[Ref(last.a)][index(0, 1)] = -heap[Ref(last.a)][index(1, 0)]
  /\ heap[Ref(last.a)][index(numCells, numCells + 1)] # 0

\* C5 (index bijection): index maps the coordinate pairs of the grid into
\* [0, size), and distinct pairs to distinct offsets; so the cells an
\* operation addresses are as many offsets as they are cells.
IndexBijection ==
  /\ \A p \in AllCells, q \in AllCells :
       /\ index(p[1], p[2]) \in Offsets
       /\ p # q => index(p[1], p[2]) # index(q[1], q[2])
  /\ Cardinality({index(p[1], p[2]) : p \in touched}) = Cardinality(touched)

\* An operation has addressed every cell of an array through index.
AddressedEveryCell == last.op = "addSource" /\ touched = AllCells

VelocityOrder ==
  <<(<<"addSource", "u", "uSource">>),
    (<<"addSource", "v", "vSource">>),
    (<<"swap", "u", "uPrev">>),
    (<<"swap", "v", "vPrev">>),
    (<<"diffuse", "u", "uPrev", "left_right_walls">>),
    (<<"diffuse", "v", "vPrev", "top_bottom_walls">>),
    (<<"project", "u", "v", "uPrev", "vPrev">>),
    (<<"swap", "u", "uPrev">>),
    (<<"swap", "v", "vPrev">>),
    (<<"advect", "u", "uPrev", "uPrev", "vPrev", "left_right_walls">>),
    (<<"advect", "v", "vPrev", "uPrev", "vPrev", "top_bottom_walls">>),
    (<<"project", "u", "v", "uPrev", "vPrev">>)>>

Positions(call) == {k \in 1 .. Len(trace) : trace[k] = call}
PositionsOf(fn) == {k \in 1 .. Len(trace) : trace[k][1] = fn}

\* C7: the velocity update of every tick runs in the order sources, swap and
\* diffuse, project, swap and advect, project; project is called exactly
\* twice per tick; and density is advected after the second projection,
\* along u and v.
VelocityStepOrder ==
  /\ phase = "step" =>
       \/ IsPrefix(trace, VelocityOrder)
       \/ IsPrefix(VelocityOrder, trace)
  /\ TickDone /\ phase = "step" =>
       /\ Cardinality(PositionsOf("project")) = 2
       /\ \E k \in 1 .. Len(trace) :
            /\ trace[k] = <<"advect", "d", "dPrev", "u", "v", "continuous">>
            /\ \A m \in PositionsOf("project") : m < k

\* A tick has run all its calls.
TickTraced == phase = "step" /\ pc = StepLen + 1 /\ Len(trace) > Len(VelocityOrder)

IsVelocityWork(call) ==
  call[1] \in {"diffuse", "project", "advect"} /\ call[2] \in {"u", "v"}

\* C8 as stated: the density source is injected before the velocity is
\* diffused, projected or advected.
DensitySourceBeforeVelocityWork ==
  \A k \in 1 .. Len(trace) :
    IsVelocityWork(trace[k]) =>
      \E m \in 1 .. k - 1 : trace[m] = <<"addSource", "d", "dSource">>

\* C8 as the code has it: the density source is injected once per tick, at
\* the start of the density step: after the velocity sources and after all
\* the velocity work of the tick (both projections included), and before
\* density is diffused or advected.
DensitySourceAfterVelocityWork ==
  /\ phase = "step" =>
       /\ \A k \in Positions(<<"addSource", "d", "dSource">>) :
            /\ IsPrefix(VelocityOrder, SubSeq(trace, 1, k - 1))
            /\ \A m \in k + 1 .. Len(trace) : ~IsVelocityWork(trace[m])
       /\ \A k \in 1 .. Len(trace) :
            (trace[k][1] \in {"diffuse", "advect"} /\ trace[k][2] = "d") =>
              \E m \in 1 .. k - 1 : trace[m] = <<"addSource", "d", "dSource">>
  /\ TickDone /\ phase = "step" =>
       Cardinality(Positions(<<"addSource", "d", "dSource">>)) = 1

\* The density source has just been added, with a non-zero source.
DensitySourceInjected ==
  /\ last.op = "addSource" /\ last.a = "d"
  /\ heap[dSource] # ZeroArray
  /\ heap[d] # ZeroArray

\* C9: two runs with the same velocity buffers and velocity sources, and any
\* contents of d, dPrev and dSource, have the same u and v after every tick.
DensityDoesNotDriveVelocity ==
  phase = "loop" => heap[u] = twin[u] /\ heap[v] = twin[v]

\* Ticks have run on two runs whose densities differ, with moving fluid.
DensitiesDiffer ==
  /\ phase = "loop" /\ subStep >= 2
  /\ heap[d] # twin[d]
  /\ heap[dSource] # twin[dSource]
  /\ heap[u] # ZeroArray

\* The events of one frame.
FrameOrder ==
  <<"fill", "populate">> \o Repeat(<<"step">>, numSubSteps) \o <<"draw">>

FrameShape ==
  /\ phase # "idle" => IsPrefix(frameLog, FrameOrder)
  /\ (phase = "drawn" \/ (phase = "idle" /\ frames >= 1)) =>
       /\ frameLog = FrameOrder
       /\ subStep = numSubSteps
       /\ shown = Rendered(heap)
  /\ phase = "step" => Len(frameLog) = 2 + subStep

TicksKeepSources ==
  phase \in {"loop", "step"} => \A b \in Sources : heap'[b] = heap[b]

\* C10: in every frame the source buffers are zeroed, then populated, then
\* exactly numSubSteps ticks run, none of which changes a source buffer, and
\* draw reads the fields after the last tick and before the next frame
\* writes the sources.
FrameSequence == []FrameShape /\ [][TicksKeepSources]_vars

\* A second frame has been drawn, with sources that were not zero.
SecondFrameDrawn ==
  /\ phase = "drawn" /\ frames = 1
  /\ heap[uSource] # ZeroArray
  /\ shown # Rendered([b \in Buffers |-> ZeroArray])

-----------------------------------------------------------------------------
(* The divergence left by project.                                         *)

Abs(n) == IF n < 0 THEN -n ELSE n

InteriorOffsets == {n \in Offsets : IsInterior(n)}

\* project has returned: its last statement, setBoundary(v, "top_bottom_walls"),
\* was the last operation.
ProjectDone ==
  /\ phase = "step"
  /\ last.op = "setBoundary"
  /\ last.call # <<>>
  /\ last.call[1] = "project"
  /\ last.bt = "top_bottom_walls"

\* The discrete divergence of the projected field, computed as project's
\* first loop computes it.
RecomputedDivergence ==
  Divergence(heap[Ref(last.call[2])], heap[Ref(last.call[3])], ZeroArray)

\* C11: after project(u, v, p, div) the discrete divergence
\* -0.5*h*((u[i+1,j]-u[i-1,j]) + (v[i,j+1]-v[i,j-1])), recomputed at every
\* interior cell, is within 1e-4 of zero.
DivergenceWithinTolerance ==
  ProjectDone =>
    \A n \in InteriorOffsets : Abs(RecomputedDivergence[n]) * 10000 <= Scale

-----------------------------------------------------------------------------
(* One frame from rest with a single density source.                       *)

\* Entry to the sub-step loop of update() with the names bound as at load.
LoopEntry ==
  /\ u = 1 /\ v = 2 /\ d = 3 /\ uPrev = 4 /\ vPrev = 5 /\ dPrev = 6
  /\ phase = "loop" /\ pc = 0 /\ subStep = 0
  /\ trace = <<>> /\ frameLog = <<>> /\ last = NoIns
  /\ touched = {} /\ shown = ZeroArray
  /\ mouseX = 0 /\ mouseY = 0 /\ prevMouseX = 0 /\ prevMouseY = 0
  /\ mouseSpeedX = 0 /\ mouseSpeedY = 0 /\ prevTimestamp = FALSE
  /\ fluidSpeed = fluidSpeedInit
  /\ frames = 0 /\ events = 0

\* densitySource[index(2, 2)] = 1000, every other cell zero.
PointSource == [n \in Offsets |-> IF n = index(2, 2) THEN 1000 * Scale ELSE 0]

ScenarioHeap ==
  [b \in Buffers |-> IF b = dSource THEN PointSource ELSE ZeroArray]

ScenarioInit ==
  /\ heap = ScenarioHeap
  /\ twin = ScenarioHeap
  /\ LoopEntry

ScenarioSpec == ScenarioInit /\ [][SolverNext]_vars

FrameDone == phase = "loop" /\ subStep = numSubSteps

FourNeighbours == {index(1, 2), index(3, 2), index(2, 1), index(2, 3)}

\* C12: all fields zero and densitySource[index(2,2)] = 1000 the only
\* non-zero source: after one frame of numSubSteps ticks the density at
\* (2,2) is positive and strictly greater than the density at each of
\* (1,2), (3,2), (2,1), (2,3).
PointSourcePeak ==
  FrameDone =>
    /\ heap[d][index(2, 2)] > 0
    /\ \A n \in FourNeighbours : heap[d][index(2, 2)] > heap[d][n]

\* The frame has run and the source has spread to the four neighbours.
PointSourceSpread ==
  /\ FrameDone
  /\ heap[dSource] = PointSource
  /\ \A n \in FourNeighbours : heap[d][n] > 0

-----------------------------------------------------------------------------
(* The source cells update() writes.                                       *)

Populated == last.op = "populate"

\* C13: every cell update() writes when it populates the source buffers,
\* (x,y), (x-1,y), (x+1,y), (x,y-1), (x,y+1), has both coordinates inside
\* [0, numCells + 1], for every pointer position on the canvas.
SourceWritesInsideGrid == Populated => touched \subseteq AllCells

-----------------------------------------------------------------------------
(* The swaps and the buffers the names refer to.                           *)

FieldNames == {"u", "v", "d", "uPrev", "vPrev", "dPrev"}

NamesDistinct == Cardinality(Fields) = 6 /\ Fields \cap Sources = {}

\* No sweep of diffuse and no pass of advect writes into a buffer it reads.
NoAliasedCall ==
  /\ At("diffuseSweep") => Ref(step[pc].a) # Ref(step[pc].b)
  /\ At("advectPass") =>
       Ref(step[pc].a) \notin
         {Ref(step[pc].b), Ref(step[pc].c), Ref(step[pc].e)}

\* A swap exchanges the buffers of its two names, leaves the other names
\* alone and changes no cell.
SwapExchanges ==
  \A ins \in {step[k] : k \in 1 .. StepLen} :
    (At("swap") /\ step[pc] = ins) =>
      /\ heap' = heap
      /\ Ref(ins.a)' = Ref(ins.b)
      /\ Ref(ins.b)' = Ref(ins.a)
      /\ \A name \in FieldNames \ {ins.a, ins.b} : Ref(name)' = Ref(name)

\* C14: each current/previous swap only exchanges which buffer the two names
\* refer to and changes no cell of any buffer; in every reachable state the
\* six names d, dPrev, u, uPrev, v, vPrev refer to six pairwise distinct
\* buffers, so diffuse and advect are never called with the output buffer
\* aliasing an input buffer.
SwapsOnlyRebind ==
  [](NamesDistinct /\ NoAliasedCall) /\ [][SwapExchanges]_vars

\* A swap has just exchanged two names whose buffers differ in content.
SwappedLiveBuffers ==
  /\ last.op = "swap"
  /\ Ref(last.a) # Ref(last.b)
  /\ heap[Ref(last.a)] # heap[Ref(last.b)]
  /\ u # 1

-----------------------------------------------------------------------------
(* The velocity advection of a tick.                                       *)

\* The operation about to run belongs to the advect call that writes x.
InAdvectOf(x) ==
  /\ phase = "step" /\ pc \in 1 .. StepLen
  /\ step[pc].call[1] = "advect"
  /\ step[pc].call[2] = x

\* The pass of advect(v, vPrev, uPrev, vPrev) is about to run.
AtSecondVelocityAdvect == At("advectPass") /\ step[pc].a = "v"

\* Both velocity components are advected along (uPrev, vPrev).
SameTransportField ==
  (At("advectPass") /\ step[pc].a \in {"u", "v"}) =>
    step[pc].c = "uPrev" /\ step[pc].e = "vPrev"

\* What advect(u, uPrev, uPrev, vPrev) yields from the present uPrev, vPrev.
AdvectedU ==
  setBoundary(AdvectPass(heap[u], heap[uPrev], heap[uPrev], heap[vPrev]),
              "left_right_walls")

\* When the second call starts, u is the transport of the uPrev and vPrev
\* that the second call reads.
SecondCallReadsSameValues == AtSecondVelocityAdvect => heap[u] = AdvectedU

\* No operation of advect(u, uPrev, uPrev, vPrev) changes a cell of uPrev or
\* of vPrev.
FirstCallKeepsField ==
  InAdvectOf("u") =>
    /\ uPrev' = uPrev /\ vPrev' = vPrev
    /\ heap'[uPrev] = heap[uPrev]
    /\ heap'[vPrev] = heap[vPrev]

\* C15: in the velocity advection of a tick both components are transported
\* along the same field (uPrev, vPrev): advect(u, uPrev, uPrev, vPrev)
\* modifies no cell of uPrev or vPrev, so advect(v, vPrev, uPrev, vPrev)
\* back-traces with exactly the values the first call used.
VelocityAdvectedAlongOneField ==
  [](SameTransportField /\ SecondCallReadsSameValues)
  /\ [][FirstCallKeepsField]_vars

\* The first call has moved u, and the field it moved u along is not zero.
FirstVelocityAdvectDone ==
  /\ AtSecondVelocityAdvect
  /\ heap[u] # heap[uPrev]
  /\ heap[uPrev] # ZeroArray
  /\ heap[vPrev] # ZeroArray

-----------------------------------------------------------------------------
(* Two runs that differ in the previous-value buffers only.                *)

\* A density field of about 0.57 with a small slope; velocity and sources
\* zero; dPrev, uPrev and vPrev zero.
SeedHeap ==
  [b \in Buffers |-> IF b = 3 THEN Pattern(-5, 1, 18753) ELSE ZeroArray]

\* The same fields and sources, with 1.0 in every cell of uPrev, vPrev, dPrev.
OtherPrev(h) ==
  [b \in Buffers |-> IF b \in {4, 5, 6} THEN [n \in Offsets |-> Scale] ELSE h[b]]

SeedInit ==
  /\ heap = SeedHeap
  /\ twin = OtherPrev(SeedHeap)
  /\ LoopEntry

SeedSpec == SeedInit /\ [][SolverNext]_vars

AfterFirstTick ==
  \/ phase = "step" /\ pc = StepLen + 1 /\ subStep = 0
  \/ phase = "loop" /\ subStep = 1

\* C16: two states that agree on d, u, v and on the three source buffers but
\* differ in the contents of dPrev, uPrev, vPrev have identical d, u, v after
\* one tick.
PrevContentsIrrelevant ==
  AfterFirstTick =>
    /\ heap[d] = twin[d]
    /\ heap[u] = twin[u]
    /\ heap[v] = twin[v]

-----------------------------------------------------------------------------
(* The pointer region in which update() injects sources.                   *)

\* The previous pointer position lies inside the 50-pixel inset of the canvas.
InsideInset ==
  /\ 50 < prevMouseX /\ prevMouseX < canvasWidth - 50
  /\ 50 < prevMouseY /\ prevMouseY < canvasHeight - 50

\* C17: update() writes non-zero values into the source buffers only when the
\* previous pointer position lies inside the 50-pixel inset of the canvas;
\* for a pointer position outside it all three source buffers stay zero for
\* the frame.
SourcesOnlyInsideInset ==
  (Populated /\ ~InsideInset) => \A b \in Sources : heap[b] = ZeroArray

-----------------------------------------------------------------------------
(* Density from rest under sampled velocity fields.                        *)

\* d and dPrev zero, a non-negative density source, sampled velocities.
RestingDensity(f) ==
  [SampleHeap(f) EXCEPT ![3] = ZeroArray, ![6] = ZeroArray]

DensityInit ==
  /\ \E f \in FieldSamples :
       /\ ~f.dens /\ ~f.other
       /\ heap = RestingDensity(f)
       /\ twin = RestingDensity(f)
  /\ LoopEntry

DensitySpec == DensityInit /\ [][SolverNext]_vars

\* C18: d and dPrev start all zero and every dSource cell is >= 0: for any
\* velocity field and after any number of ticks every cell of d and of
\* dPrev, interior and ghost, is >= 0.
DensityNonNegative ==
  \A n \in Offsets : heap[d][n] >= 0 /\ heap[dPrev][n] >= 0

\* A frame has run under a non-zero velocity and density has been carried
\* into a cell the source does not feed.
DensityCarried ==
  /\ FrameDone
  /\ heap[u] # ZeroArray /\ heap[v] # ZeroArray
  /\ \E n \in InteriorOffsets : heap[dSource][n] = 0 /\ heap[d][n] > 0

-----------------------------------------------------------------------------
(* What advect leaves in its output array.                                 *)

\* advect has returned: its closing setBoundary was the last operation.
AdvectReturned ==
  /\ phase = "step"
  /\ last.op = "setBoundary"
  /\ last.call # <<>>
  /\ last.call[1] = "advect"

ZeroInside(x) == \A n \in InteriorOffsets : x[n] = 0

\* The result of the returned call when its output array held prior.
AdvectResult(prior) ==
  setBoundary(AdvectPass(prior, heap[Ref(last.call[3])],
                         heap[Ref(last.call[4])], heap[Ref(last.call[5])]),
              last.call[6])

PriorContents == {ZeroArray, Pattern(Scale, -3 * Scale, 7)}

CopiesUnderZeroVelocity ==
  (/\ AdvectReturned
   /\ ZeroInside(heap[Ref(last.call[4])])
   /\ ZeroInside(heap[Ref(last.call[5])]))
  => \A n \in InteriorOffsets :
       heap[Ref(last.call[2])][n] = heap[Ref(last.call[3])][n]

OverwritesEveryCell ==
  AdvectReturned =>
    \A prior \in PriorContents : heap[Ref(last.call[2])] = AdvectResult(prior)

\* C19: advect(out, in, velX, velY, policy) with velX and velY zero at every
\* interior cell copies the interior unchanged, out[i,j] = in[i,j] for all
\* 1 <= i, j <= numCells, whatever out held before; and for any velocity
\* field advect overwrites every one of the (numCells+2)^2 cells of out, so
\* its result does not depend on the prior contents of out.
AdvectCopiesAndOverwrites == CopiesUnderZeroVelocity /\ OverwritesEveryCell

\* advect(d, dPrev, u, v) has returned under a zero velocity with a density
\* that is not the same in all interior cells.
DensityCopied ==
  /\ AdvectReturned
  /\ last.call[2] = "d"
  /\ ZeroInside(heap[u]) /\ ZeroInside(heap[v])
  /\ heap[dPrev][index(1, 1)] # heap[dPrev][index(2, 1)]
  /\ heap[dPrev][index(1, 1)] # heap[dPrev][index(1, 2)]

====
